---- MODULE Spec2Model ----
(***************************************************************************)
(* Model of sd_dynamic_prompts/word_shuffle_generator.py.                  *)
(*                                                                         *)
(* A Python str is a sequence of one-character strings.  Positions are     *)
(* 1-based; a span [s, e) is given by its first position s and the         *)
(* position e just after its last character.                               *)
(***************************************************************************)
EXTENDS Integers, Sequences, FiniteSets

VARIABLES
    pc,             \* position of the modelled caller
    text,           \* split_respecting_parentheses: argument text
    separator,      \* split_respecting_parentheses: argument separator
    parts,          \* split_respecting_parentheses: returned list
    rejoined,       \* (separator + " ").join(parts)
    reparts,        \* split_respecting_parentheses(rejoined, separator)
    self,           \* the WordShuffleGenerator object (None before __init__)
    prompt,         \* _shuffle_prompt: argument prompt
    seed,           \* _shuffle_prompt: argument seed
    trace,          \* _shuffle_prompt: its locals and its return value
    kwargs,         \* generate: the seeds keyword (Absent when not passed)
    prompts,        \* generate: what the wrapped generator returned
    output,         \* generate: returned list, or the exception raised
    kept,           \* one earlier seeded rewrite the caller kept, or None
    global_random   \* state of the module-level generator of `random`

vars == <<pc, text, separator, parts, rejoined, reparts, self, prompt, seed,
          trace, kwargs, prompts, output, kept, global_random>>

splitVars == <<text, separator, parts, rejoined, reparts>>
promptVars == <<prompt, seed, trace>>
genVars == <<kwargs, prompts, output, kept, global_random>>

(***************************************************************************)
(* Optional values: None is the empty tuple and a present value v is the   *)
(* one-element tuple Some(v), so that an int or a list can be told from    *)
(* None.  A seed is None or Some(n); what the wrapped generator returns is *)
(* None or Some(list); kwargs is Absent (no "seeds" key) or Some(list).    *)
(***************************************************************************)
None == <<>>
Absent == <<>>
Some(v) == <<v>>

TypeError == "TypeError"
Raised(exception) == [raised |-> exception, value |-> <<>>]
Returned(v) == [raised |-> "", value |-> v]

(***************************************************************************)
(* Bounds of the model.                                                    *)
(***************************************************************************)
MaxLen == 5
MaxPieces == 3
MaxPrompts == 2
MaxSeeds == 2

(***************************************************************************)
(* Strings.                                                                *)
(***************************************************************************)
SeqsUpTo(S, n) == UNION {[1..k -> S] : k \in 0..n}

RECURSIVE Flatten(_)
Flatten(ss) == IF ss = <<>> THEN <<>> ELSE Head(ss) \o Flatten(Tail(ss))

StartsAt(s, m, i) ==
    /\ i >= 1
    /\ i + Len(m) - 1 <= Len(s)
    /\ \A k \in 1..Len(m) : s[i + k - 1] = m[k]

IsSpace(c) == c \in {" ", "\n", "\t"}

RECURSIVE lstrip(_)
lstrip(s) == IF s # <<>> /\ IsSpace(Head(s)) THEN lstrip(Tail(s)) ELSE s

RECURSIVE rstrip(_)
rstrip(s) ==
    IF s # <<>> /\ IsSpace(s[Len(s)]) THEN rstrip(SubSeq(s, 1, Len(s) - 1)) ELSE s

strip_nothing(s) == s

strip(s) == rstrip(lstrip(s))

RECURSIVE join(_, _)
join(glue, list) ==
    IF list = <<>> THEN <<>>
    ELSE IF Len(list) = 1 THEN list[1]
    ELSE list[1] \o glue \o join(glue, Tail(list))

(***************************************************************************)
(* split_respecting_parentheses.  One call of SplitLoop is one iteration   *)
(* of `for char in text`; i is the position of char.                       *)
(***************************************************************************)
AtSeparatorAnyDepth(char, sep, paren_depth) == <<char>> = sep

AtSeparator(char, sep, paren_depth) == <<char>> = sep /\ paren_depth = 0

ClosePart(list, current_part) ==
    LET part == strip(current_part)
    IN  IF part # <<>> THEN Append(list, part) ELSE list

RECURSIVE SplitLoop(_, _, _, _, _, _)
SplitLoop(txt, sep, i, list, current_part, paren_depth) ==
    IF i > Len(txt) THEN ClosePart(list, current_part)
    ELSE LET char == txt[i] IN
         IF char = "("
         THEN SplitLoop(txt, sep, i + 1, list, Append(current_part, char),
                        paren_depth + 1)
         ELSE IF char = ")"
         THEN SplitLoop(txt, sep, i + 1, list, Append(current_part, char),
                        paren_depth - 1)
         ELSE IF AtSeparator(char, sep, paren_depth)
         THEN SplitLoop(txt, sep, i + 1, ClosePart(list, current_part), <<>>,
                        paren_depth)
         ELSE SplitLoop(txt, sep, i + 1, list, Append(current_part, char),
                        paren_depth)

split_respecting_parentheses(txt, sep) == SplitLoop(txt, sep, 1, <<>>, <<>>, 0)

(***************************************************************************)
(* random.Random.  An instance is its state, a natural number that fixes   *)
(* every later draw: randbelow(n) returns state % n and leaves state \div n.*)
(* Random(a) with an integer a starts in a state that a alone determines;  *)
(* Random(None) starts in a state read from the operating system's         *)
(* entropy, which the caller of these operators chooses.                   *)
(***************************************************************************)
SeedState(a) == 7919 * a + 104729

NewRandomShared(a, entropy) == global_random

NewRandom(a, entropy) == IF a = None THEN entropy ELSE SeedState(a[1])

RECURSIVE ShuffleLoopNoSwap(_, _, _)
ShuffleLoopNoSwap(x, i, state) ==
    IF i < 2 THEN x
    ELSE LET j == (state % i) + 1
         IN  ShuffleLoopNoSwap([x EXCEPT ![i] = x[j]], i - 1, state \div i)

\* for i in reversed(range(1, len(x))): j = randbelow(i + 1); swap x[i], x[j]
RECURSIVE ShuffleLoop(_, _, _)
ShuffleLoop(x, i, state) ==
    IF i < 2 THEN x
    ELSE LET j == (state % i) + 1
         IN  ShuffleLoop([x EXCEPT ![i] = x[j], ![j] = x[i]], i - 1,
                         state \div i)

shuffle_copying(x, state) == ShuffleLoopNoSwap(x, Len(x), state)

shuffle(x, state) == ShuffleLoop(x, Len(x), state)

(***************************************************************************)
(* sd_dynamic_prompts.special_syntax: a protected fragment is "<", one or  *)
(* more characters other than ">", and ">".  The fragments are removed     *)
(* left to right and appended, in that order, to the end of the text.      *)
(***************************************************************************)
RECURSIVE FirstAt(_, _, _)
FirstAt(s, c, k) ==
    IF k > Len(s) THEN 0 ELSE IF s[k] = c THEN k ELSE FirstAt(s, c, k + 1)

\* The position just after the fragment that begins at pos, or 0.
FragmentEnd(s, pos) ==
    IF pos + 1 <= Len(s) /\ s[pos] = "<" /\ s[pos + 1] # ">"
    THEN LET k == FirstAt(s, ">", pos + 2) IN IF k = 0 THEN 0 ELSE k + 1
    ELSE 0

RECURSIVE RemoveLoop(_, _, _, _)
RemoveLoop(s, pos, out, chunks) ==
    IF pos > Len(s) THEN <<out, chunks>>
    ELSE LET e == FragmentEnd(s, pos) IN
         IF e = 0 THEN RemoveLoop(s, pos + 1, Append(out, s[pos]), chunks)
         ELSE RemoveLoop(s, e, out, Append(chunks, SubSeq(s, pos, e - 1)))

remove_a1111_special_syntax_chunks(s) == RemoveLoop(s, 1, <<>>, <<>>)

append_chunks(s, chunks) == s \o Flatten(chunks)

(***************************************************************************)
(* WordShuffleGenerator._shuffle_prompt.                                   *)
(***************************************************************************)
\* shuffle_section(match) with content = match.group(1); entropy is the
\* state a Random(None) would start in.
shuffle_section(slf, sd, content, entropy) ==
    LET tokens == split_respecting_parentheses(content, slf.separator)
        rng == NewRandom(IF sd # None THEN sd ELSE slf.seed, entropy)
        shuffled == shuffle(tokens, rng)
    IN  [content |-> content,
         parts |-> shuffled,
         repl |-> join(slf.separator \o <<" ">>, shuffled)]

\* (.*?) followed by the escaped end delimiter, with re.DOTALL: the group
\* grows by one character of any kind until shuffle_end matches at k and
\* the match ends after floor.
RECURSIVE LazyEnd(_, _, _, _)
LazyEnd(s, shuffle_end, k, floor) ==
    IF StartsAt(s, shuffle_end, k) /\ k + Len(shuffle_end) > floor THEN k
    ELSE IF k > Len(s) THEN 0
    ELSE LazyEnd(s, shuffle_end, k + 1, floor)

MatchAtOpenEnded(slf, s, pos, must_advance) ==
    IF ~StartsAt(s, slf.shuffle_start, pos) THEN 0
    ELSE LET k == LazyEnd(s, slf.shuffle_end, pos + Len(slf.shuffle_start),
                          IF must_advance THEN pos ELSE pos - 1)
         IN  IF k # 0 THEN k + Len(slf.shuffle_end)
             ELSE IF must_advance /\ pos > Len(s) THEN 0
             ELSE Len(s) + 1

\* The pattern tried at pos: the position just after the match, or 0.
\* must_advance is set for the attempt that follows an empty match at pos,
\* where re accepts no second empty match.
MatchAt(slf, s, pos, must_advance) ==
    IF ~StartsAt(s, slf.shuffle_start, pos) THEN 0
    ELSE LET k == LazyEnd(s, slf.shuffle_end, pos + Len(slf.shuffle_start),
                          IF must_advance THEN pos ELSE pos - 1)
         IN  IF k = 0 THEN 0 ELSE k + Len(slf.shuffle_end)

EntropyAt(entropy, k) == IF k <= Len(entropy) THEN entropy[k] ELSE 0

\* self._shuffle_pattern.sub(shuffle_section, prompt): the scan from pos,
\* with the text emitted so far and the matches replaced so far.
RECURSIVE SubLoop(_, _, _, _, _, _, _, _)
SubLoop(slf, sd, s, pos, must_advance, entropy, out, matches) ==
    LET e == MatchAt(slf, s, pos, must_advance) IN
    IF e = 0
    THEN IF pos > Len(s) THEN [out |-> out, matches |-> matches]
         ELSE SubLoop(slf, sd, s, pos + 1, FALSE, entropy,
                      Append(out, s[pos]), matches)
    ELSE LET content == SubSeq(s, pos + Len(slf.shuffle_start),
                               e - Len(slf.shuffle_end) - 1)
             section == shuffle_section(slf, sd, content,
                            EntropyAt(entropy, Len(matches) + 1))
             m == [s |-> pos, e |-> e, content |-> section.content,
                   parts |-> section.parts, repl |-> section.repl]
         IN  SubLoop(slf, sd, s, e, e = pos, entropy, out \o m.repl,
                     Append(matches, m))

sub_stripped(slf, sd, s, entropy) ==
    LET r == SubLoop(slf, sd, s, 1, FALSE, entropy, <<>>, <<>>)
    IN  [out |-> strip(r.out), matches |-> r.matches]

sub(slf, sd, s, entropy) ==
    SubLoop(slf, sd, s, 1, FALSE, entropy, <<>>, <<>>)

_shuffle_prompt(slf, p, sd, entropy) ==
    LET removed == remove_a1111_special_syntax_chunks(p)
        r == sub(slf, sd, removed[1], entropy)
    IN  [stripped |-> removed[1],
         special_chunks |-> removed[2],
         matches |-> r.matches,
         shuffled |-> r.out,
         result |-> append_chunks(r.out, removed[2])]

(***************************************************************************)
(* The states a Random(None) can start in, one per section of the prompt.  *)
(* A shuffle of n tokens reads its state modulo n!, so the states below n! *)
(* give every outcome.                                                     *)
(***************************************************************************)
RECURSIVE Factorial(_)
Factorial(n) == IF n <= 1 THEN 1 ELSE n * Factorial(n - 1)

RECURSIVE EntropySeqs(_)
EntropySeqs(counts) ==
    IF counts = <<>> THEN {<<>>}
    ELSE {<<h>> \o t : h \in 0..(Factorial(Head(counts)) - 1),
                       t \in EntropySeqs(Tail(counts))}

Entropies(slf, p, sd) ==
    IF sd # None \/ slf.seed # None THEN {<<>>}
    ELSE LET ms == _shuffle_prompt(slf, p, sd, <<>>).matches
         IN  EntropySeqs([k \in 1..Len(ms) |-> Len(ms[k].parts)])

\* Every outcome of self._shuffle_prompt(p, sd).
Outcomes(slf, p, sd) ==
    {_shuffle_prompt(slf, p, sd, en) : en \in Entropies(slf, p, sd)}

(***************************************************************************)
(* Specification SpecSplit: the tokenizer applied to every short string    *)
(* over SplitAlphabet and to the inputs of the repository's tests, then    *)
(* the tokens joined as shuffle_section joins them and split again.        *)
(***************************************************************************)
SplitAlphabet == {"a", " ", ",", "(", ")"}

Separators == {<<",">>, <<" ">>, <<"(">>, <<")">>}

TestSplitInputs ==
    { <<"a", ",", " ", "b", ",", " ", "c">>,
      <<"a", ",", " ", "(", "b", ",", " ", "c", ")", ",", " ", "d">>,
      <<"a", ",", " ", "(", "(", "b", ",", " ", "c", ")", ":", "1", ".", "5",
        ")", ",", " ", "d">>,
      <<"a", ",", ",", " ", "b", ",", ",", ",", " ", "c">> }

SplitInputs == SeqsUpTo(SplitAlphabet, MaxLen) \cup TestSplitInputs

InitSplit ==
    /\ pc = "start"
    /\ text \in SplitInputs
    /\ separator \in Separators
    /\ parts = <<>>
    /\ rejoined = <<>>
    /\ reparts = <<>>
    /\ self = None
    /\ prompt = None /\ seed = None /\ trace = None
    /\ kwargs = None /\ prompts = None /\ output = None
    /\ kept = None /\ global_random = 0

Split ==
    /\ pc = "start"
    /\ parts' = split_respecting_parentheses(text, separator)
    /\ pc' = "split"
    /\ UNCHANGED <<text, separator, rejoined, reparts, self>>
    /\ UNCHANGED promptVars
    /\ UNCHANGED genVars

Resplit ==
    /\ pc = "split"
    /\ rejoined' = join(separator \o <<" ">>, parts)
    /\ reparts' = split_respecting_parentheses(rejoined', separator)
    /\ pc' = "resplit"
    /\ UNCHANGED <<text, separator, parts, self>>
    /\ UNCHANGED promptVars
    /\ UNCHANGED genVars

NextSplit == Split \/ Resplit

SpecSplit == InitSplit /\ [][NextSplit]_vars

(***************************************************************************)
(* The generators of the model: the arguments __init__ is called with.     *)
(***************************************************************************)
Generator(sd, shuffle_start, shuffle_end, sep) ==
    [seed |-> sd, shuffle_start |-> shuffle_start,
     shuffle_end |-> shuffle_end, separator |-> sep]

ConstructorArgs ==
    { Generator(None, <<"$", "[">>, <<"]", "$">>, <<",">>),
      Generator(Some(2), <<"$">>, <<"$">>, <<",">>),
      Generator(None, <<>>, <<>>, <<",">>),
      Generator(Some(1), <<"[">>, <<"]">>, <<" ">>) }

SeedValues == {Some(1), Some(2)}

(***************************************************************************)
(* Specification SpecPrompt: _shuffle_prompt applied once, by each         *)
(* generator and with each seed, to every prompt made of at most MaxPieces *)
(* pieces and to the prompts of the repository's tests (shortened).        *)
(***************************************************************************)
Pieces ==
    { <<"$", "[">>, <<"]", "$">>, <<"a", ",", "b">>,
      <<"(", "c", ",", " ", "d", ")">>, <<" ">>, <<"<", "x", ">">>, <<"$">>,
      <<"\n">> }

TestPrompts ==
    { <<"$", "[", "a", ",", " ", "b", ",", " ", "c", "]", "$", " ", "&", " ",
        "$", "[", "x", ",", " ", "y", ",", " ", "z", "]", "$">>,
      <<"$", "[", "r", ",", " ", "(", "b", ",", "g", ":", "1", ")", ",", " ",
        "y", "]", "$", " ", "c", "a", "r">>,
      <<"$", "[", "r", ",", " ", "b", ",", " ", "g", "]", "$", " ", "<", "l",
        ">", " ", "<", "h", ">">>,
      <<"t", " ", "$", "[", "]", "$", " ", "e">>,
      <<"a", " ", "p", "r", "o", "m", "p", "t">>,
      <<"$", "[", "a", ",", "b", "]", "$", "[", "c">>,
      <<"x", " ", "$", "[", "a", ",", "b", "]", "$", " ", "$", "[", "c">>,
      <<"$", "[", " ", "$", "[", "a", ",", "\n", "b", "]", "$", "]", "$">> }

PromptInputs ==
    {Flatten(ps) : ps \in SeqsUpTo(Pieces, MaxPieces)} \cup TestPrompts

InitPrompt ==
    /\ pc = "start"
    /\ self \in {Some(args) : args \in ConstructorArgs}
    /\ prompt \in PromptInputs
    /\ seed \in SeedValues \cup {None}
    /\ trace = None
    /\ text = None /\ separator = None
    /\ parts = <<>> /\ rejoined = <<>> /\ reparts = <<>>
    /\ kwargs = None /\ prompts = None /\ output = None
    /\ kept = None /\ global_random = 0

ShufflePrompt ==
    /\ pc = "start"
    /\ \E t \in Outcomes(self[1], prompt, seed) : trace' = t
    /\ pc' = "done"
    /\ UNCHANGED <<self, prompt, seed>>
    /\ UNCHANGED splitVars
    /\ UNCHANGED genVars

NextPrompt == ShufflePrompt

SpecPrompt == InitPrompt /\ [][NextPrompt]_vars

(***************************************************************************)
(* Specification Spec: a WordShuffleGenerator is constructed and generate  *)
(* is called any number of times.  The wrapped generator is outside the    *)
(* repository: it returns any list of at most MaxPrompts candidates, or    *)
(* None.  Between calls other code may draw from the module-level          *)
(* generator of `random`.                                                  *)
(***************************************************************************)
Templates ==
    { <<"$", "[", "a", ",", "b", "]", "$", " ", "c">>,
      <<"x", "<", "l", ">", "$", "[", "(", "a", ",", "b", ")", ",", " ", "c",
        "]", "$">> }

UpstreamResults ==
    {Some(ps) : ps \in SeqsUpTo(Templates, MaxPrompts)} \cup {None}

SeedsOptions ==
    {Some(seeds) : seeds \in SeqsUpTo(SeedValues \cup {None}, MaxSeeds)}
        \cup {Absent}

Init ==
    /\ pc = "new"
    /\ self = None
    /\ kwargs = None /\ prompts = None /\ output = None
    /\ kept = None
    /\ global_random = 0
    /\ prompt = None /\ seed = None /\ trace = None
    /\ text = None /\ separator = None
    /\ parts = <<>> /\ rejoined = <<>> /\ reparts = <<>>

\* WordShuffleGenerator(generator, seed, shuffle_start, shuffle_end, separator)
__init__ ==
    /\ pc = "new"
    /\ \E args \in ConstructorArgs : self' = Some(args)
    /\ pc' = "idle"
    /\ UNCHANGED genVars
    /\ UNCHANGED promptVars
    /\ UNCHANGED splitVars

\* generate(template, num_images, **kwargs) is entered and calls
\* self._generator.generate(template, num_images, **kwargs).
GenerateCall ==
    /\ pc = "idle"
    /\ \E seeds \in SeedsOptions : kwargs' = seeds
    /\ prompts' = None
    /\ output' = None
    /\ pc' = "upstream"
    /\ UNCHANGED <<self, kept, global_random>>
    /\ UNCHANGED promptVars
    /\ UNCHANGED splitVars

Min(a, b) == IF a <= b THEN a ELSE b

\* seeds = kwargs.get("seeds", [None] * len(prompts))
SeedsFor(kw, ps) ==
    IF kw = Absent THEN [i \in 1..Len(ps) |-> None] ELSE kw[1]

\* zip(prompts, seeds) as the list of its pairs' positions.
Zipped(ps, seeds) == 1..Min(Len(ps), Len(seeds))

\* [self._shuffle_prompt(prompt, seed) for prompt, seed in zip(prompts, seeds)]
\* from the i-th pair on: every list of results the comprehension can build.
RECURSIVE ShuffledPrompts(_, _, _, _)
ShuffledPrompts(slf, ps, seeds, i) ==
    IF i \notin Zipped(ps, seeds) THEN {<<>>}
    ELSE {<<t.result>> \o rest :
             t \in Outcomes(slf, ps[i], seeds[i]),
             rest \in ShuffledPrompts(slf, ps, seeds, i + 1)}

\* The wrapped generator returns; the rest of generate runs.  len(None)
\* and zip(None, seeds) raise TypeError.
GenerateReturn ==
    /\ pc = "upstream"
    /\ \E upstream \in UpstreamResults :
          /\ prompts' = upstream
          /\ IF upstream = None
             THEN output' = Raised(TypeError)
             ELSE \E shuffled_prompts \in
                        ShuffledPrompts(self[1], upstream[1],
                                        SeedsFor(kwargs, upstream[1]), 1) :
                     output' = Returned(shuffled_prompts)
    /\ pc' = "returned"
    /\ UNCHANGED <<self, kwargs, kept, global_random>>
    /\ UNCHANGED promptVars
    /\ UNCHANGED splitVars

\* The rewrites of the call that just returned whose seed was not None.
SeededRewrites ==
    IF prompts = None \/ output.raised # "" THEN {}
    ELSE LET seeds == SeedsFor(kwargs, prompts[1])
         IN  {[prompt |-> prompts[1][i], seed |-> seeds[i],
               result |-> output.value[i], at |-> global_random] :
                 i \in {j \in 1..Len(output.value) : seeds[j] # None}}

\* return shuffled_prompts (or the exception propagates): the caller has
\* the result, may keep one rewrite to compare a later one with, and may
\* call again.
GenerateExit ==
    /\ pc = "returned"
    /\ pc' = "idle"
    /\ kept' \in {kept} \cup {Some(r) : r \in SeededRewrites}
    /\ kwargs' = None
    /\ prompts' = None
    /\ output' = None
    /\ UNCHANGED <<self, global_random>>
    /\ UNCHANGED promptVars
    /\ UNCHANGED splitVars

\* Code elsewhere in the process draws from the module-level generator.
AmbientDraw ==
    /\ pc = "idle"
    /\ global_random' = (global_random + 1) % 2
    /\ UNCHANGED <<pc, self, kwargs, prompts, output, kept>>
    /\ UNCHANGED promptVars
    /\ UNCHANGED splitVars

Next == __init__ \/ GenerateCall \/ GenerateReturn \/ GenerateExit \/ AmbientDraw

Spec == Init /\ [][Next]_vars

(***************************************************************************)
(* The tokenizer's contract, stated without the loop: the cut positions,   *)
(* the segments between them and their trimmed text.                       *)
(***************************************************************************)
Count(s, c, n) == Cardinality({j \in 1..n : s[j] = c})

\* The running depth when the character at position i is met.
DepthAt(s, i) == Count(s, "(", i - 1) - Count(s, ")", i - 1)

CutPositions(s, sep) ==
    {i \in 1..Len(s) : <<s[i]>> = sep /\ DepthAt(s, i) = 0}

\* The text strictly between positions lo and hi, whitespace-trimmed.
Trimmed(s, lo, hi) ==
    LET ns == {i \in (lo + 1)..(hi - 1) : ~IsSpace(s[i])}
    IN  IF ns = {} THEN <<>>
        ELSE SubSeq(s, CHOOSE i \in ns : \A j \in ns : i <= j,
                       CHOOSE i \in ns : \A j \in ns : j <= i)

NextCut(s, sep, lo) ==
    LET later == {c \in CutPositions(s, sep) \cup {Len(s) + 1} : c > lo}
    IN  CHOOSE c \in later : \A d \in later : c <= d

\* Where the non-empty segments begin (0: at the start of the text).
SegmentStarts(s, sep) ==
    {lo \in CutPositions(s, sep) \cup {0} :
        Trimmed(s, lo, NextCut(s, sep, lo)) # <<>>}

ExpectedTokens(s, sep) ==
    LET starts == SegmentStarts(s, sep)
        rank(lo) == Cardinality({x \in starts : x <= lo})
    IN  [k \in 1..Cardinality(starts) |->
            LET lo == CHOOSE x \in starts : rank(x) = k
            IN  Trimmed(s, lo, NextCut(s, sep, lo))]

IsParen(sep) == sep \in {<<"(">>, <<")">>}

Balanced(s) ==
    /\ \A i \in 1..(Len(s) + 1) : DepthAt(s, i) >= 0
    /\ DepthAt(s, Len(s) + 1) = 0

\* C1 as stated: for every input string and every single-character
\* separator, the returned list is exactly the trimmed, non-empty segments
\* between the separators met at depth 0, in order.
C1_SplitEverySeparator ==
    pc # "start" => parts = ExpectedTokens(text, separator)

\* C1 amended: the same for every single-character separator other than
\* "(" and ")" (a parenthesis is always taken as a parenthesis, never as
\* the separator).
C1_SplitAtDepthZero ==
    (pc # "start" /\ ~IsParen(separator))
        => parts = ExpectedTokens(text, separator)

\* A split that kept a parenthesized group holding the separator in one
\* token and dropped an empty segment.
C1_Witness ==
    /\ pc = "split"
    /\ separator = <<",">>
    /\ Len(parts) >= 2
    /\ \E k \in 1..Len(parts) : \E i \in 1..Len(parts[k]) : parts[k][i] = ","
    /\ Cardinality(CutPositions(text, separator)) >= Len(parts)

HasSeparatorAtDepthZero(token, sep) == CutPositions(token, sep) # {}

Done == pc = "done"

StartLen == Len(self[1].shuffle_start)

EndLen == Len(self[1].shuffle_end)

\* shuffle_end occurs somewhere at or after position q of s.
EndFollows(s, q) ==
    \E j \in q..(Len(s) + 1) : StartsAt(s, self[1].shuffle_end, j)

\* A section can begin at position p of s.
SectionOpensAt(s, p) ==
    /\ StartsAt(s, self[1].shuffle_start, p)
    /\ EndFollows(s, p + StartLen)

\* Position p of s lies in the match m (an empty match lies at its place).
Inside(m, p) == m.s <= p /\ (p < m.e \/ p = m.s)

\* m is a span of s from a start delimiter to an end delimiter, and its
\* content is what lies between the two.
IsSection(s, m) ==
    /\ 1 <= m.s
    /\ m.e <= Len(s) + 1
    /\ m.e - m.s >= StartLen + EndLen
    /\ StartsAt(s, self[1].shuffle_start, m.s)
    /\ StartsAt(s, self[1].shuffle_end, m.e - EndLen)
    /\ m.content = SubSeq(s, m.s + StartLen, m.e - EndLen - 1)

\* An occurrence of marker in s that begins at a character of s.
Occurs(marker, s) == \E i \in 1..Len(s) : StartsAt(s, marker, i)

\* C7 as stated, of every generator that can be constructed: the matched
\* sections are spans from a start delimiter to an end delimiter,
\* non-overlapping and in left-to-right order, none left out; each is the
\* shortest span from its start delimiter to an end delimiter: its content
\* holds no occurrence of the end delimiter, and no complete start...end
\* span lies strictly inside it.
C7_SectionsDoNotNest ==
    Done =>
        LET s == trace.stripped
            ms == trace.matches
        IN  /\ \A k \in 1..Len(ms) : IsSection(s, ms[k])
            /\ \A k \in 1..(Len(ms) - 1) :
                  /\ ms[k].e <= ms[k + 1].s
                  /\ ms[k].s < ms[k + 1].s \/ ms[k].e < ms[k + 1].e
            /\ \A p \in 1..(Len(s) + 1) :
                  SectionOpensAt(s, p) =>
                      \E k \in 1..Len(ms) : Inside(ms[k], p)
            /\ \A k \in 1..Len(ms) :
                  /\ \A q \in (ms[k].s + StartLen)..(ms[k].e - EndLen - 1) :
                        ~StartsAt(s, self[1].shuffle_end, q)
                  /\ ~Occurs(self[1].shuffle_end, ms[k].content)
                  /\ \A p1 \in (ms[k].s + 1)..(ms[k].e - 1) :
                        \A q1 \in p1..(ms[k].e - 1) :
                           ~ /\ q1 - p1 >= StartLen + EndLen
                             /\ StartsAt(s, self[1].shuffle_start, p1)
                             /\ StartsAt(s, self[1].shuffle_end, q1 - EndLen)

Contains(s, c) == \E i \in 1..Len(s) : s[i] = c

(***************************************************************************)
(* The text outside the sections.                                          *)
(***************************************************************************)
\* By how much the first k replacements lengthen the text.
RECURSIVE Shift(_, _)
Shift(ms, k) ==
    IF k = 0 THEN 0
    ELSE Shift(ms, k - 1) + Len(ms[k].repl) - (ms[k].e - ms[k].s)

\* How many matches end at or before position p.
EndedBy(ms, p) == Cardinality({k \in 1..Len(ms) : ms[k].e <= p})

Outside(ms, p) == \A k \in 1..Len(ms) : p < ms[k].s \/ p >= ms[k].e

\* The last n characters of s.
Suffix(s, n) == SubSeq(s, Len(s) - n + 1, Len(s))

Occurrences(list, x) == Cardinality({i \in 1..Len(list) : list[i] = x})

IsPermutation(a, b) ==
    /\ Len(a) = Len(b)
    /\ \A i \in 1..Len(a) : Occurrences(a, a[i]) = Occurrences(b, a[i])

\* Where the k-th of the joined tokens begins, less one.
RECURSIVE Offset(_, _, _)
Offset(list, glue, k) ==
    IF k <= 1 THEN 0
    ELSE Offset(list, glue, k - 1) + Len(list[k - 1]) + Len(glue)

\* r is the tokens of list in order with glue between neighbours.
IsJoined(r, list, glue) ==
    /\ Len(r) = IF list = <<>> THEN 0
                ELSE Offset(list, glue, Len(list)) + Len(list[Len(list)])
    /\ \A k \in 1..Len(list) :
          LET from == Offset(list, glue, k)
          IN  /\ SubSeq(r, from + 1, from + Len(list[k])) = list[k]
              /\ k < Len(list) =>
                    SubSeq(r, from + Len(list[k]) + 1,
                           from + Len(list[k]) + Len(glue)) = glue

\* C3: the text that replaces a matched section is a permutation of the
\* tokenizer's output for the section's content, joined with
\* separator + " "; no token is split, merged, dropped or duplicated; the
\* empty string for zero tokens and the token itself for one.
C3_PermutationFidelity ==
    Done =>
        LET ms == trace.matches
            out == trace.shuffled
            sep == self[1].separator
        IN  \A k \in 1..Len(ms) :
               LET tokens == split_respecting_parentheses(ms[k].content, sep)
                   from == ms[k].s + Shift(ms, k - 1)
               IN  /\ IsPermutation(ms[k].parts, tokens)
                   /\ IsJoined(ms[k].repl, ms[k].parts, sep \o <<" ">>)
                   /\ SubSeq(out, from, from + Len(ms[k].repl) - 1)
                         = ms[k].repl
                   /\ tokens = <<>> => ms[k].repl = <<>>
                   /\ Len(tokens) = 1 => ms[k].repl = tokens[1]

\* A section of three tokens, one a parenthesized group holding the
\* separator, replaced by them in another order, with no seed anywhere.
C3_Witness ==
    /\ Done
    /\ seed = None
    /\ self[1].seed = None
    /\ \E k \in 1..Len(trace.matches) :
          LET m == trace.matches[k]
              tokens == split_respecting_parentheses(m.content,
                                                     self[1].separator)
          IN  /\ Len(tokens) = 3
              /\ m.parts # tokens
              /\ \E i \in 1..3 : Contains(tokens[i], ",")

(***************************************************************************)
(* Prompts without sections.                                               *)
(***************************************************************************)
\* No start delimiter of s is followed by an end delimiter.
NoMarkerPair(s) == \A p \in 1..(Len(s) + 1) : ~SectionOpensAt(s, p)

\* s holds no protected fragment.
NoFragment(s) ==
    \A i \in 1..Len(s) :
        ~ /\ s[i] = "<"
          /\ i + 1 <= Len(s)
          /\ s[i + 1] # ">"
          /\ \E j \in (i + 2)..Len(s) : s[j] = ">"

ReturnedState == pc = "returned"

\* The seed generate passes to _shuffle_prompt for the i-th candidate when
\* the seeds option has an entry for it, and None otherwise.
SeedOption(i) ==
    IF kwargs # Absent /\ i <= Len(kwargs[1]) THEN kwargs[1][i] ELSE None

\* C4: a rewrite of a candidate with a seed that is not None is the same
\* string as every earlier rewrite of that candidate with that seed,
\* whatever calls and whatever draws from the module-level generator
\* happened in between.
C4_SameSeedSameResult ==
    (ReturnedState /\ kept # None /\ prompts # None) =>
        \A i \in 1..Len(output.value) :
            ( /\ prompts[1][i] = kept[1].prompt
              /\ SeedOption(i) = kept[1].seed )
            => output.value[i] = kept[1].result

\* A candidate rewritten by the default generator, with a seed, into
\* another order, the result kept, the module-level generator drawn from,
\* and the candidate rewritten again with that seed in a call that also
\* rewrites with another seed.
C4_Witness ==
    /\ ReturnedState
    /\ kept # None
    /\ prompts # None
    /\ self[1].shuffle_start = <<"$", "[">>
    /\ kept[1].at # global_random
    /\ kept[1].result # kept[1].prompt
    /\ self[1].seed # kept[1].seed
    /\ Len(output.value) = 2
    /\ prompts[1][1] = kept[1].prompt
    /\ SeedOption(1) = kept[1].seed
    /\ SeedOption(2) \notin {None, kept[1].seed}

ValidDelimiters(slf) ==
    /\ slf.shuffle_start # <<>>
    /\ slf.shuffle_end # <<>>
    /\ slf.shuffle_start # slf.shuffle_end

\* C8 as stated: when the wrapped generator returns an empty list or None,
\* generate returns just that and raises nothing, with or without seeds
\* (stated of the generators whose delimiters are non-empty and distinct).
C8_UpstreamEmptyPropagates ==
    ( /\ ReturnedState
      /\ ValidDelimiters(self[1])
      /\ (prompts = None \/ prompts = Some(<<>>)) ) =>
        /\ output.raised = ""
        /\ prompts # None => output.value = prompts[1]

\* C9 as stated: no generator exists, and so none runs generate, whose
\* start or end delimiter is empty or whose two delimiters are the same.
C9_DelimitersValidated ==
    self # None => ValidDelimiters(self[1])

\* C10 as stated: generate returns one rewrite per candidate, the i-th
\* shuffled with seeds[i] when that entry is there and not None and with
\* the constructor's seed otherwise (stated of the generators whose
\* delimiters are non-empty and distinct).
C10_OneOutputPerCandidate ==
    (ReturnedState /\ ValidDelimiters(self[1]) /\ prompts # None) =>
        /\ output.raised = ""
        /\ Len(output.value) = Len(prompts[1])
        /\ \A i \in 1..Len(prompts[1]) :
              i <= Len(output.value) =>
                 \E t \in Outcomes(self[1], prompts[1][i], SeedOption(i)) :
                    output.value[i] = t.result

====
